---------------------------- MODULE Spec2Model ----------------------------
(***************************************************************************)
(* The five corpus scripts CAPP.py, CASS.py, INCA.py, JADE.py and CNIL.py   *)
(* as one state machine.  The variable corpus selects the script; a run is *)
(* one call of its main() (tar_dila_data for CNIL).  The file system        *)
(* (extracted documents, the output dataset, CNIL's kept tarballs) lives    *)
(* across runs, everything else is local to a run.                          *)
(***************************************************************************)
EXTENDS Integers, Sequences, FiniteSets, TLC

(***************************************************************************)
(* Python values.  A str is a sequence of one-character strings; None is   *)
(* kept apart from the empty str.                                           *)
(***************************************************************************)
PyNone == [t |-> "None", v |-> <<>>]
PyStr(s) == [t |-> "str", v |-> s]
EmptyStr == PyStr(<<>>)
IsStr(x) == x.t = "str"
\* Python truthiness of an Optional[str]: None and "" are falsy.
Truthy(x) == x.t = "str" /\ x.v # <<>>

\* str.isspace() / the regex class \s, on the characters the documents use.
IsSpace(c) == c \in {" ", "\n", "\t"}

RECURSIVE Concat(_)
\* ''.join(parts)
Concat(parts) ==
  IF parts = <<>> THEN <<>> ELSE Head(parts) \o Concat(Tail(parts))

\* Index of the first ">" at or after position i, 0 when there is none.
RECURSIVE FirstGt(_, _)
FirstGt(s, i) ==
  IF i > Len(s) THEN 0
  ELSE IF s[i] = ">" THEN i ELSE FirstGt(s, i + 1)

\* re.sub(r'<[^>]+>', ' ', text): scanning from the left, a "<" followed by
\* one or more characters other than ">" and then ">" becomes one space.
RECURSIVE StripTagsFrom(_, _)
StripTagsFrom(s, i) ==
  IF i > Len(s) THEN <<>>
  ELSE IF s[i] = "<" /\ FirstGt(s, i + 1) > i + 1
       THEN <<" ">> \o StripTagsFrom(s, FirstGt(s, i + 1) + 1)
       ELSE <<s[i]>> \o StripTagsFrom(s, i + 1)

\* The substitution with count=1: only the first tag becomes a space.
RECURSIVE StripFirstTagFrom(_, _)
StripFirstTagFrom(s, i) ==
  IF i > Len(s) THEN <<>>
  ELSE IF s[i] = "<" /\ FirstGt(s, i + 1) > i + 1
       THEN <<" ">> \o SubSeq(s, FirstGt(s, i + 1) + 1, Len(s))
       ELSE <<s[i]>> \o StripFirstTagFrom(s, i + 1)

StripTags_FirstOnly(s) == StripFirstTagFrom(s, 1)

StripTags(s) == StripTagsFrom(s, 1)

\* re.sub(r'\s+', ' ', text)
RECURSIVE CollapseFrom(_, _)
CollapseFrom(s, i) ==
  IF i > Len(s) THEN <<>>
  ELSE IF IsSpace(s[i])
       THEN IF i > 1 /\ IsSpace(s[i - 1])
            THEN CollapseFrom(s, i + 1)
            ELSE <<" ">> \o CollapseFrom(s, i + 1)
       ELSE <<s[i]>> \o CollapseFrom(s, i + 1)

CollapseSpaces(s) == CollapseFrom(s, 1)

\* Whether pat occurs in s at position i.
StartsAt(s, i, pat) ==
  /\ i + Len(pat) - 1 <= Len(s)
  /\ \A k \in 1..Len(pat) : s[i + k - 1] = pat[k]

\* str.replace(old, new): every non-overlapping occurrence, left to right.
RECURSIVE ReplaceFrom(_, _, _, _)
ReplaceFrom(s, i, old, new) ==
  IF i > Len(s) THEN <<>>
  ELSE IF StartsAt(s, i, old)
       THEN new \o ReplaceFrom(s, i + Len(old), old, new)
       ELSE <<s[i]>> \o ReplaceFrom(s, i + 1, old, new)

Replace(s, old, new) == ReplaceFrom(s, 1, old, new)

\* str.strip()
RECURSIVE LStrip(_)
LStrip(s) ==
  IF s # <<>> /\ IsSpace(Head(s)) THEN LStrip(Tail(s)) ELSE s

RECURSIVE RStrip(_)
RStrip(s) ==
  IF s # <<>> /\ IsSpace(s[Len(s)])
  THEN RStrip(SubSeq(s, 1, Len(s) - 1)) ELSE s

Strip(s) == RStrip(LStrip(s))

\* The five replace() calls of clean_text, in the order the code makes them.
DecodeEntities(s) ==
  LET s1 == Replace(s,  <<"&", "a", "m", "p", ";">>, <<"&">>)
      s2 == Replace(s1, <<"&", "l", "t", ";">>, <<"<">>)
      s3 == Replace(s2, <<"&", "g", "t", ";">>, <<">">>)
      s4 == Replace(s3, <<"&", "q", "u", "o", "t", ";">>, <<"\"">>)
      s5 == Replace(s4, <<"&", "a", "p", "o", "s", ";">>, <<"'">>)
  IN s5

\* The body of clean_text below its guard: tags, whitespace, entities, strip.
CleanBody(s) == Strip(DecodeEntities(CollapseSpaces(StripTags(s))))

\* clean_text of CAPP.py, CASS.py and INCA.py: "" for falsy text.
clean_text(x) == IF ~Truthy(x) THEN EmptyStr ELSE PyStr(CleanBody(x.v))


(***************************************************************************)
(* XML documents, as ElementTree presents them after parsing: entity and   *)
(* character references are already decoded in .text.  An element is       *)
(* absent (find returns None) or present with a .text (None when empty)    *)
(* and, for PUBLI_BULL, its publie attribute (None when not set).          *)
(***************************************************************************)
NoElem == [present |-> FALSE, text |-> PyNone, publie |-> PyNone]
Elem(text) == [present |-> TRUE, text |-> text, publie |-> PyNone]
ElemAttr(text, a) == [present |-> TRUE, text |-> text, publie |-> a]

\* The child tags the parsers read inside the metadata blocks.
Tags ==
  {"ID", "ANCIEN_ID", "ORIGINE", "URL", "NATURE",
   "TITRE", "DATE_DEC", "JURIDICTION", "NUMERO", "SOLUTION",
   "NUMERO_AFFAIRE", "PUBLI_BULL", "FORMATION", "DATE_DEC_ATT",
   "FORM_DEC_ATT", "SIEGE_APPEL", "JURI_PREM", "LIEU_PREM", "DEMANDEUR",
   "DEFENDEUR", "PRESIDENT", "AVOCAT_GL", "AVOCATS", "RAPPORTEUR", "ECLI",
   "TYPE_REC", "PUBLI_RECUEIL", "COMMISSAIRE_GVT",
   "TITREFULL", "NATURE_DELIB", "DATE_TEXTE", "DATE_PUBLI", "ETAT_JURIDIQUE"}

\* A metadata block: absent, or present with its children.
NoBlock == [present |-> FALSE, kids |-> [g \in Tags |-> NoElem]]
Block(kids) == [present |-> TRUE, kids |-> kids]
\* Every child present with the same text, except the given overrides.
BlockOf(text, over) ==
  Block([g \in Tags |-> IF g \in DOMAIN over THEN over[g] ELSE Elem(text)])

\* A text-bearing subtree (CONTENU, SOMMAIRE, SCT, ANA): its own leading
\* .text, then the text nodes inside and after its nested elements in
\* document order, then its .tail.
NoNode == [present |-> FALSE, text |-> PyNone, rest |-> <<>>, tail |-> <<>>]
Node(text, rest, tail) ==
  [present |-> TRUE, text |-> text, rest |-> rest, tail |-> tail]

\* ''.join(element.itertext())
itertext(n) == (IF IsStr(n.text) THEN n.text.v ELSE <<>>) \o Concat(n.rest)

\* SOMMAIRE: absent, or present with its own text and its SCT / ANA children
\* (each a Node with a tag and a TYPE attribute).
NoSommaire == [present |-> FALSE, text |-> PyNone, subs |-> <<>>]
Sommaire(text, subs) == [present |-> TRUE, text |-> text, subs |-> subs]
Sub(tag, type, n) == [tag |-> tag, type |-> type, node |-> n]

RECURSIVE SubsText(_)
SubsText(subs) ==
  IF subs = <<>> THEN <<>>
  ELSE itertext(Head(subs).node) \o Head(subs).node.tail \o SubsText(Tail(subs))

\* ''.join(sommaire.itertext())
sommaire_itertext(s) ==
  (IF IsStr(s.text) THEN s.text.v ELSE <<>>) \o SubsText(s.subs)

\* sommaire.find(".//SCT[@TYPE='...']") and sommaire.find(".//ANA"): the first
\* matching child in document order, NoNode for None.
RECURSIVE FindSub(_, _, _)
FindSub(subs, tag, type) ==
  IF subs = <<>> THEN NoNode
  ELSE IF Head(subs).tag = tag /\ (type = "" \/ Head(subs).type = type)
       THEN Head(subs).node
       ELSE FindSub(Tail(subs), tag, type)

(***************************************************************************)
(* The parsers.  A parse result is a dict (data: key -> Python value),     *)
(* None (the except branch of the four parse_xml_file), or an exception    *)
(* raised to the caller (parse_cnil_xml_file).                              *)
(***************************************************************************)
Dict(d) == [kind |-> "dict", data |-> d]
RetNone == [kind |-> "None", data |-> [k \in {} |-> EmptyStr]]
Raised(e) == [kind |-> e, data |-> [k \in {} |-> EmptyStr]]
\* `if data:` in the parse loops: None and the empty dict are falsy.
DataTruthy(r) == r.kind = "dict" /\ DOMAIN r.data # {}

\* get_element_text of CAPP.py, CASS.py and INCA.py.
get_element_text(blk, tag) ==
  LET found == blk.kids[tag]
  IN IF found.present /\ Truthy(found.text) THEN clean_text(found.text)
     ELSE EmptyStr

\* get_element_text of JADE.py: strip() only.
get_element_text_JADE(blk, tag) ==
  LET found == blk.kids[tag]
  IN IF found.present /\ Truthy(found.text) THEN PyStr(Strip(found.text.v))
     ELSE EmptyStr

\* Element.findtext(tag, ""): the default when absent, "" for an empty text.
findtext(blk, tag) ==
  LET found == blk.kids[tag]
  IN IF ~found.present THEN EmptyStr
     ELSE IF IsStr(found.text) THEN found.text ELSE EmptyStr

\* data.update({key: get_element_text(blk, tag), ...}) for the pairs of map.
UpdateText(data, blk, map) ==
  [k \in DOMAIN data |->
     IF k \in DOMAIN map THEN get_element_text(blk, map[k]) ELSE data[k]]

UpdateText_JADE(data, blk, map) ==
  [k \in DOMAIN data |->
     IF k \in DOMAIN map THEN get_element_text_JADE(blk, map[k]) ELSE data[k]]

\* data[key] = value
Put(data, key, val) == [k \in DOMAIN data \cup {key} |->
                          IF k = key THEN val ELSE data[k]]

\* The key -> tag pairs of the blocks.
MapCommun == [id |-> "ID", ancien_id |-> "ANCIEN_ID", origine |-> "ORIGINE",
              url |-> "URL", nature |-> "NATURE"]
MapJuri == [titre |-> "TITRE", date_decision |-> "DATE_DEC",
            juridiction |-> "JURIDICTION", numero |-> "NUMERO",
            solution |-> "SOLUTION"]
MapJuri_JADE == [titre |-> "TITRE", date_decision |-> "DATE_DEC",
                 juridiction |-> "JURIDICTION", numero |-> "NUMERO"]
MapJudi_CAPP == [formation |-> "FORMATION", siege_appel |-> "SIEGE_APPEL",
                 juridiction_premiere_instance |-> "JURI_PREM",
                 lieu_premiere_instance |-> "LIEU_PREM",
                 president |-> "PRESIDENT", avocat_general |-> "AVOCAT_GL",
                 avocats |-> "AVOCATS", rapporteur |-> "RAPPORTEUR"]
MapJudi_CASS == [numero_affaire |-> "NUMERO_AFFAIRE",
                 formation |-> "FORMATION",
                 date_decision_attaquee |-> "DATE_DEC_ATT",
                 juridiction_attaquee |-> "FORM_DEC_ATT",
                 siege_appel |-> "SIEGE_APPEL",
                 juridiction_premiere_instance |-> "JURI_PREM",
                 lieu_premiere_instance |-> "LIEU_PREM",
                 demandeur |-> "DEMANDEUR", defendeur |-> "DEFENDEUR",
                 president |-> "PRESIDENT", avocat_general |-> "AVOCAT_GL",
                 avocats |-> "AVOCATS", rapporteur |-> "RAPPORTEUR",
                 ecli |-> "ECLI"]
MapAdmin_JADE == [formation |-> "FORMATION", type_recours |-> "TYPE_REC",
                  publication_recueil |-> "PUBLI_RECUEIL",
                  president |-> "PRESIDENT", avocats |-> "AVOCATS",
                  rapporteur |-> "RAPPORTEUR",
                  commissaire_gouvernement |-> "COMMISSAIRE_GVT"]

\* The keys each parser declares in its initial data dict.
Keys_CAPP ==
  {"id", "ancien_id", "origine", "url", "nature", "titre", "date_decision",
   "juridiction", "numero", "solution", "numero_affaire", "formation",
   "siege_appel", "juridiction_premiere_instance", "lieu_premiere_instance",
   "president", "avocat_general", "avocats", "rapporteur", "contenu",
   "sommaire"}
Keys_Judi ==
  {"id", "ancien_id", "origine", "url", "nature", "titre", "date_decision",
   "juridiction", "numero", "solution", "numero_affaire", "publie_bulletin",
   "formation", "date_decision_attaquee", "juridiction_attaquee",
   "siege_appel", "juridiction_premiere_instance", "lieu_premiere_instance",
   "demandeur", "defendeur", "president", "avocat_general", "avocats",
   "rapporteur", "ecli", "contenu"}
Keys_CASS ==
  Keys_Judi \cup {"sommaire_principal", "sommaire_reference",
                  "sommaire_analyse"}
Keys_INCA == Keys_Judi \cup {"sommaire"}
Keys_JADE ==
  {"id", "ancien_id", "origine", "url", "nature", "titre", "date_decision",
   "juridiction", "numero", "formation", "type_recours",
   "publication_recueil", "president", "avocats", "rapporteur",
   "commissaire_gouvernement", "contenu"}
\* The keys the docstring of parse_cnil_xml_file declares.
Keys_CNIL ==
  {"id", "origine", "url", "nature", "titrefull", "numero", "nature_delib",
   "date_texte", "date_publi", "etat_juridique", "contenu"}

Defaults(keys) == [k \in keys |-> EmptyStr]

\* A document: well-formed or not; whether its META_JURI / META_JURI_JUDI
\* sit inside a META_SPEC container; its blocks; CONTENU and SOMMAIRE.
Doc(wf, spec, commun, juri, judi, admin, cnil, contenu, sommaire) ==
  [wf |-> wf, spec |-> spec, commun |-> commun, juri |-> juri,
   judi |-> judi, admin |-> admin, cnil |-> cnil, contenu |-> contenu,
   sommaire |-> sommaire]

\* CAPP.py parse_xml_file.
parse_xml_file_CAPP(doc) ==
  IF ~doc.wf THEN RetNone
  ELSE
    LET d0 == Defaults(Keys_CAPP)
        d1 == IF doc.commun.present
              THEN UpdateText(d0, doc.commun, MapCommun) ELSE d0
        d2 == IF doc.juri.present
              THEN UpdateText(d1, doc.juri, MapJuri) ELSE d1
        numero_affaire == doc.judi.kids["NUMERO_AFFAIRE"]
        d3 == IF doc.judi.present
              THEN Put(UpdateText(d2, doc.judi, MapJudi_CAPP),
                       "numero_affaire",
                       IF numero_affaire.present THEN numero_affaire.text
                       ELSE EmptyStr)
              ELSE d2
        d4 == IF doc.contenu.present
              THEN Put(d3, "contenu", clean_text(PyStr(itertext(doc.contenu))))
              ELSE d3
        d5 == IF doc.sommaire.present
              THEN Put(d4, "sommaire",
                       clean_text(PyStr(sommaire_itertext(doc.sommaire))))
              ELSE d4
    IN Dict(d5)

\* The META_JURI_JUDI update shared by CASS.py and INCA.py.
UpdateJudi(data, judi) ==
  LET publi_bull == judi.kids["PUBLI_BULL"]
  IN Put(UpdateText(data, judi, MapJudi_CASS), "publie_bulletin",
         IF publi_bull.present THEN publi_bull.publie ELSE EmptyStr)

\* CASS.py parse_xml_file.
parse_xml_file_CASS(doc) ==
  IF ~doc.wf THEN RetNone
  ELSE
    LET d0 == Defaults(Keys_CASS)
        d1 == IF doc.commun.present
              THEN UpdateText(d0, doc.commun, MapCommun) ELSE d0
        d2 == IF doc.juri.present
              THEN UpdateText(d1, doc.juri, MapJuri) ELSE d1
        d3 == IF doc.judi.present THEN UpdateJudi(d2, doc.judi) ELSE d2
        d4 == IF doc.contenu.present
              THEN Put(d3, "contenu", clean_text(PyStr(itertext(doc.contenu))))
              ELSE d3
        principal == FindSub(doc.sommaire.subs, "SCT", "PRINCIPAL")
        reference == FindSub(doc.sommaire.subs, "SCT", "REFERENCE")
        analyse == FindSub(doc.sommaire.subs, "ANA", "")
        d5 == IF doc.sommaire.present
              THEN Put(Put(Put(d4,
                     "sommaire_principal",
                     IF principal.present THEN clean_text(principal.text)
                     ELSE EmptyStr),
                     "sommaire_reference",
                     IF reference.present THEN clean_text(reference.text)
                     ELSE EmptyStr),
                     "sommaire_analyse",
                     IF analyse.present THEN clean_text(analyse.text)
                     ELSE EmptyStr)
              ELSE d4
    IN Dict(d5)

\* INCA.py parse_xml_file: META_JURI and META_JURI_JUDI are looked up
\* inside META_SPEC only.
parse_xml_file_INCA(doc) ==
  IF ~doc.wf THEN RetNone
  ELSE
    LET d0 == Defaults(Keys_INCA)
        d1 == IF doc.commun.present
              THEN UpdateText(d0, doc.commun, MapCommun) ELSE d0
        d2 == IF doc.spec /\ doc.juri.present
              THEN UpdateText(d1, doc.juri, MapJuri) ELSE d1
        d3 == IF doc.spec /\ doc.judi.present
              THEN UpdateJudi(d2, doc.judi) ELSE d2
        d4 == IF doc.contenu.present
              THEN Put(d3, "contenu", clean_text(PyStr(itertext(doc.contenu))))
              ELSE d3
        d5 == IF doc.sommaire.present
              THEN Put(d4, "sommaire",
                       clean_text(PyStr(sommaire_itertext(doc.sommaire))))
              ELSE d4
    IN Dict(d5)

\* JADE.py parse_xml_file.  JADE.py never imports re, so its clean_text
\* raises NameError at its first statement; parse_xml_file calls it only for
\* a document with a CONTENU, and its except branch then returns None.
parse_xml_file_JADE(doc) ==
  IF ~doc.wf THEN RetNone
  ELSE IF doc.contenu.present THEN RetNone
  ELSE
    LET d0 == Defaults(Keys_JADE)
        d1 == IF doc.commun.present
              THEN UpdateText_JADE(d0, doc.commun, MapCommun) ELSE d0
        d2 == IF doc.juri.present
              THEN UpdateText_JADE(d1, doc.juri, MapJuri_JADE) ELSE d1
        d3 == IF doc.admin.present
              THEN UpdateText_JADE(d2, doc.admin, MapAdmin_JADE) ELSE d2
    IN Dict(d3)

\* data_extracted[field.lower()] = meta.findtext(field, "") for the fields.
FindAll(data, blk, map) ==
  [k \in DOMAIN data \cup DOMAIN map |->
     IF k \in DOMAIN map THEN findtext(blk, map[k]) ELSE data[k]]

MapCommun_CNIL == [id |-> "ID", origine |-> "ORIGINE", url |-> "URL",
                   nature |-> "NATURE"]
MapMeta_CNIL == [titrefull |-> "TITREFULL", numero |-> "NUMERO",
                 nature_delib |-> "NATURE_DELIB", date_texte |-> "DATE_TEXTE",
                 date_publi |-> "DATE_PUBLI",
                 etat_juridique |-> "ETAT_JURIDIQUE"]

\* CNIL.py parse_cnil_xml_file: starts from an empty dict, raises ValueError
\* on malformed XML and RuntimeError when META_CNIL is absent (findtext on
\* None).
parse_cnil_xml_file(doc) ==
  IF ~doc.wf THEN Raised("ValueError")
  ELSE IF ~doc.cnil.present THEN Raised("RuntimeError")
  ELSE
    LET d0 == [k \in {} |-> EmptyStr]
        d1 == IF doc.commun.present
              THEN FindAll(d0, doc.commun, MapCommun_CNIL) ELSE d0
        d2 == FindAll(d1, doc.cnil, MapMeta_CNIL)
        d3 == IF doc.contenu.present
              THEN Put(d2, "contenu",
                       PyStr(Strip(itertext(doc.contenu) \o doc.contenu.tail)))
              ELSE d2
    IN Dict(d3)

Corpora == {"CAPP", "CASS", "INCA", "JADE", "CNIL"}

\* The parser of each script.
Parse(c, doc) ==
  CASE c = "CAPP" -> parse_xml_file_CAPP(doc)
    [] c = "CASS" -> parse_xml_file_CASS(doc)
    [] c = "INCA" -> parse_xml_file_INCA(doc)
    [] c = "JADE" -> parse_xml_file_JADE(doc)
    [] c = "CNIL" -> parse_cnil_xml_file(doc)

\* The keys declared for each corpus.
DeclaredKeys(c) ==
  CASE c = "CAPP" -> Keys_CAPP
    [] c = "CASS" -> Keys_CASS
    [] c = "INCA" -> Keys_INCA
    [] c = "JADE" -> Keys_JADE
    [] c = "CNIL" -> Keys_CNIL

(***************************************************************************)
(* The documents and archives of the model.                                *)
(***************************************************************************)
TxtA == <<"A">>
\* Text that normalisation changes: inner whitespace run, trailing newline.
TxtSpaced == <<" ", "D", "e", "c", " ", "\n", "A", "\n">>
\* Text holding a decoded angle-bracket pair and an entity sequence.
TxtMarkup == <<"x", "<", "i", ">", "y", "&", "a", "m", "p", ";", "z">>

\* All blocks, wrapped in META_SPEC, nested CONTENU, two SCT and an ANA.
DocFull ==
  Doc(TRUE, TRUE,
      BlockOf(PyStr(TxtSpaced), [ID |-> Elem(PyStr(<<"1">>))]),
      BlockOf(PyStr(TxtSpaced), <<>>),
      BlockOf(PyStr(TxtA),
              [PUBLI_BULL |-> ElemAttr(PyNone, PyStr(<<"o", "u", "i">>))]),
      BlockOf(PyStr(TxtA), <<>>),
      BlockOf(PyStr(TxtSpaced), <<>>),
      Node(PyStr(<<"a", " ">>), << <<"b">>, <<" ", " ", "c">> >>, <<"\n">>),
      Sommaire(PyNone,
               << Sub("SCT", "PRINCIPAL",
                      Node(PyStr(<<"P">>), << <<"p">>, <<"q">> >>, <<"\n">>)),
                  Sub("SCT", "REFERENCE",
                      Node(PyStr(<<"R">>), <<>>, <<>>)),
                  Sub("ANA", "", Node(PyNone, << <<"n">> >>, <<>>)) >>))

\* A well-formed document with no metadata block, CONTENU or SOMMAIRE.
DocBare ==
  Doc(TRUE, FALSE, NoBlock, NoBlock, NoBlock, NoBlock, NoBlock, NoNode,
      NoSommaire)

\* No META_COMMUN; NUMERO_AFFAIRE present and empty, PUBLI_BULL present
\* without its publie attribute, FORMATION absent; no CONTENU.
DocNulls ==
  Doc(TRUE, TRUE, NoBlock,
      BlockOf(PyStr(TxtSpaced), <<>>),
      BlockOf(PyStr(TxtA),
              [NUMERO_AFFAIRE |-> Elem(PyNone), PUBLI_BULL |-> Elem(PyNone),
               FORMATION |-> NoElem]),
      BlockOf(PyNone, <<>>),
      BlockOf(PyStr(TxtA), [NUMERO |-> Elem(PyNone), TITREFULL |-> NoElem]),
      NoNode, NoSommaire)

\* The specialised blocks at top level, without a META_SPEC container.
DocFlat ==
  Doc(TRUE, FALSE,
      BlockOf(PyStr(<<"3">>), <<>>),
      BlockOf(PyStr(TxtA), <<>>),
      BlockOf(PyStr(TxtA), [PUBLI_BULL |-> ElemAttr(PyNone, PyStr(<<"n">>))]),
      NoBlock,
      BlockOf(PyStr(<<"3">>), <<>>),
      Node(PyStr(TxtMarkup), <<>>, <<>>),
      NoSommaire)

\* META_COMMUN and an empty CONTENU element only (plus META_CNIL).
DocEmptyContenu ==
  Doc(TRUE, FALSE,
      BlockOf(PyStr(<<"4">>), [URL |-> Elem(PyNone)]),
      NoBlock, NoBlock, NoBlock,
      BlockOf(PyStr(<<"4">>), <<>>),
      Node(PyNone, <<>>, <<"\n">>),
      Sommaire(PyStr(<<"s", " ">>), <<>>))

\* Bytes that are not well-formed XML.
DocMalformed ==
  Doc(FALSE, FALSE, NoBlock, NoBlock, NoBlock, NoBlock, NoBlock, NoNode,
      NoSommaire)

\* The .xml files of the archives, by path.
Files == {"f1", "f2", "f3", "f4", "f5", "f6"}

DocOf(f) ==
  CASE f = "f1" -> DocFull
    [] f = "f2" -> DocMalformed
    [] f = "f3" -> DocBare
    [] f = "f4" -> DocNulls
    [] f = "f5" -> DocFlat
    [] f = "f6" -> DocEmptyContenu

\* The remote archives and the members of each, in tar order.
Archives == {"a1", "a2", "Freemium_a3"}

Members(a) ==
  CASE a = "a1" -> <<"f1", "f2", "f3">>
    [] a = "a2" -> <<"f4", "f5">>
    [] a = "Freemium_a3" -> <<"f6">>

\* "Freemium" in remote_file
IsFreemium(a) == a = "Freemium_a3"

\* The archive lists a run may read (the *LISTE.csv content after the split
\* and strip, or the names scraped from the index page).
ArchiveLists ==
  {<<>>, <<"a1">>, <<"a2">>, <<"a1", "a2">>, <<"a1", "a2", "Freemium_a3">>}

SeqRange(s) == {s[i] : i \in 1..Len(s)}
Prefix(s, k) == SubSeq(s, 1, k)

\* Every parse result, computed once: the table of (script, path, result).
ParseTable == {<<c, f, Parse(c, DocOf(f))>> : c \in Corpora, f \in Files}
\* What script c's parser returns for the document at path f.
Parsed(c, f) == (CHOOSE t \in ParseTable : t[1] = c /\ t[2] = f)[3]

(***************************************************************************)
(* The output dataset.                                                     *)
(***************************************************************************)
\* Number of records the batching scripts buffer before a write.  The
\* scripts set 1000; the model scales it down.
batch_size == 2

\* json.dumps of a str (quotes and newlines escaped) or of None.
RECURSIVE Escape(_)
Escape(s) ==
  IF s = <<>> THEN <<>>
  ELSE (CASE Head(s) = "\"" -> <<"\\", "\"">>
          [] Head(s) = "\n" -> <<"\\", "n">>
          [] Head(s) = "\t" -> <<"\\", "t">>
          [] OTHER -> <<Head(s)>>) \o Escape(Tail(s))

json_value(x) ==
  IF IsStr(x) THEN <<"\"">> \o Escape(x.v) \o <<"\"">>
  ELSE <<"n", "u", "l", "l">>

\* json.dumps(item, ensure_ascii=False): one JSON object, key by key.
json_dumps(data) == [k \in DOMAIN data |-> json_value(data[k])]

\* The state names a record by the path it was parsed from: the buffers
\* (batch_data, results) and the lines of the output file are sequences of
\* paths.  RecordOf gives the dict a path stands for in a buffer of script c,
\* LineOf the line written for it.
RecordOf(c, f) == Parsed(c, f).data
LineOf(c, f) == json_dumps(RecordOf(c, f))

NoFile == [exists |-> FALSE, lines |-> <<>>]
EmptyFile == [exists |-> TRUE, lines |-> <<>>]

\* How a write of n records can end: all n written; the open fails; or an
\* exception after the first k < n lines.
WriteOutcomes(n) ==
  {[ok |-> TRUE, opened |-> TRUE, k |-> n],
   [ok |-> FALSE, opened |-> FALSE, k |-> 0]}
    \cup {[ok |-> FALSE, opened |-> TRUE, k |-> j] : j \in 0..(n - 1)}

\* with open(output_file, 'a') ...: the lines that got through are appended.
AppendTo(out, items, o) ==
  IF o.opened
  THEN [exists |-> TRUE, lines |-> out.lines \o Prefix(items, o.k)]
  ELSE out

\* with open(output_file, 'w') ...: the file is truncated, then written.
Overwrite(out, items, o) ==
  IF o.opened THEN [exists |-> TRUE, lines |-> Prefix(items, o.k)] ELSE out

\* write_batch_to_jsonl opening the file with mode 'w'.
write_batch_truncating(out, items, o) == Overwrite(out, items, o)

\* write_batch_to_jsonl(batch_data, output_file): mode defaults to 'a'.
write_batch_to_jsonl(out, items, o) == AppendTo(out, items, o)

\* The final write of JADE.py and CNIL.py: mode 'w'.
write_all(out, items, o) == Overwrite(out, items, o)

(***************************************************************************)
(* State.                                                                  *)
(***************************************************************************)
VARIABLES
  corpus,          \* which script runs
  pc,              \* where main() stands
  filenames,       \* the archive list read
  idx,             \* next archive of the download loop
  extracted,       \* .xml files on disk under the extraction directory
  tarballs,        \* .tar.gz files on disk in the extraction directory
  output,          \* the output dataset file
  xml_files,       \* the discovered documents, in discovery order
  pos,             \* next document of the parse loop
  batch_data,      \* CAPP, CASS, INCA: the buffered records
  total_processed, \* CAPP, CASS, INCA: the counter of the end-of-run log
  results,         \* JADE, CNIL: all records of the run
  log,             \* what the run logged or printed
  exc,             \* the exception that left main() uncaught, "" for none
  net,             \* history: network requests made by the run
  truncs,          \* history: truncations of the output file in the run
  writes,          \* history: the write attempts of the run, in order
  fetched,         \* history: archives downloaded and extracted in the run
  got,             \* history: documents extracted in the run
  prev,            \* history: the previous run, when it completed with
                   \* every write through: what it discovered and left
  text,            \* clean_text alone: the text given to it
  once,            \* clean_text alone: clean_text(text)
  twice            \* clean_text alone: clean_text(clean_text(text))

vars == <<corpus, pc, filenames, idx, extracted, tarballs, output, xml_files,
          pos, batch_data, total_processed, results, log, exc, net,
          truncs, writes, fetched, got, prev, text, once, twice>>

\* The variables of clean_text taken alone; the runs of main() leave them.
tvars == <<text, once, twice>>
\* clean_text has not been called yet.
NotCalled == [t |-> "?", v |-> <<>>]
\* The run before this one did not complete, or one of its writes failed.
NoPrev ==
  [done |-> FALSE, xml_files |-> <<>>,
   output |-> [exists |-> FALSE, lines |-> <<>>]]

Batching == {"CAPP", "CASS", "INCA"}
\* Scripts that delete their data directory at the start of main().
Cleaning == {"CASS", "INCA"}
\* Scripts that read the archive list from a *LISTE.csv file.
ListFile == {"CAPP", "CASS", "INCA", "JADE"}

\* main() has returned or died.
Ended == {"Done", "Aborted", "NoFiles", "Crashed"}

Init ==
  /\ corpus \in Corpora
  /\ pc = "Idle"
  /\ filenames = <<>>
  /\ idx = 1
  /\ extracted = {}
  /\ tarballs = {}
  /\ output = NoFile
  /\ xml_files = <<>>
  /\ pos = 1
  /\ batch_data = <<>>
  /\ total_processed = 0
  /\ results = <<>>
  /\ log = {}
  /\ exc = ""
  /\ net = 0
  /\ truncs = 0
  /\ writes = <<>>
  /\ fetched = {}
  /\ got = {}
  /\ prev = NoPrev
  /\ text = PyNone /\ once = NotCalled /\ twice = NotCalled

(***************************************************************************)
(* The environment's choices.  The failures modelled are those the scripts *)
(* handle or meet in their loops: reading the list, fetching an archive,   *)
(* parsing a document, writing records.                                    *)
(***************************************************************************)
\* How the download and extraction of archive a can end: extracted whole;
\* the request fails or answers a non-200 status; the archive is corrupt and
\* extraction stops after the first k members.
FetchOutcomes(a) ==
  {[kind |-> "ok", k |-> Len(Members(a))], [kind |-> "http", k |-> 0]}
    \cup {[kind |-> "corrupt", k |-> j] : j \in 0..(Len(Members(a)) - 1)}

\* Directory enumeration order (glob.glob, os.walk) is the file system's:
\* either direction of the path order.
PathOrder == <<"f1", "f2", "f3", "f4", "f5", "f6">>
Reverse(s) == [i \in 1..Len(s) |-> s[Len(s) + 1 - i]]
InSet(S) == LET Test(f) == f \in S IN SelectSeq(PathOrder, Test)
Orders(S) == {InSet(S), Reverse(InSet(S))}

(***************************************************************************)
(* main(): start.  CASS.py and INCA.py remove their data directory, which  *)
(* holds the extracted files and the output dataset.                       *)
(***************************************************************************)
StartRun ==
  /\ pc \in {"Idle"} \cup Ended
  /\ pc' = "Listing"
  /\ IF corpus \in Cleaning
     THEN extracted' = {} /\ tarballs' = {} /\ output' = NoFile
     ELSE UNCHANGED <<extracted, tarballs, output>>
  /\ filenames' = <<>> /\ idx' = 1 /\ xml_files' = <<>> /\ pos' = 1
  /\ batch_data' = <<>> /\ total_processed' = 0 /\ results' = <<>>
  /\ log' = {} /\ exc' = "" /\ net' = 0 /\ truncs' = 0 /\ writes' = <<>> /\ fetched' = {}
  /\ got' = {}
  /\ prev' = IF pc = "Done" /\ \A i \in 1..Len(writes) : writes[i].ok
             THEN [done |-> TRUE, xml_files |-> xml_files, output |-> output]
             ELSE NoPrev
  /\ UNCHANGED <<corpus, tvars>>

\* The archive list is read: the split of *LISTE.csv, or (CNIL) the names
\* get_tar_files scrapes from the index page, which is a network request.
ReadList ==
  /\ pc = "Listing"
  /\ \E l \in ArchiveLists : filenames' = l
  /\ pc' = "Fetching"
  /\ net' = IF corpus = "CNIL" THEN net + 1 ELSE net
  /\ log' = IF corpus \in Cleaning THEN log \cup {"list_found"} ELSE log
  /\ UNCHANGED <<corpus, idx, extracted, tarballs, output, xml_files, pos,
                 batch_data, total_processed, results, exc, truncs, writes,
                 fetched, got, prev, tvars>>

\* The archive list cannot be read.  CAPP, CASS, INCA: logged, return.
\* JADE: the open is outside any try, the exception leaves main().  CNIL:
\* get_tar_files re-raises the URLError of its request.
ReadListFails ==
  /\ pc = "Listing"
  /\ pc' = IF corpus \in Batching THEN "Aborted" ELSE "Crashed"
  /\ exc' = CASE corpus \in Batching -> ""
              [] corpus = "JADE" -> "FileNotFoundError"
              [] corpus = "CNIL" -> "URLError"
  /\ log' = IF corpus \in Batching THEN log \cup {"list_error"} ELSE log
  /\ net' = IF corpus = "CNIL" THEN net + 1 ELSE net
  /\ UNCHANGED <<corpus, filenames, idx, extracted, tarballs, output,
                 xml_files, pos, batch_data, total_processed, results,
                 truncs, writes, fetched, got, prev, tvars>>

\* download_and_extract of CAPP.py, CASS.py, INCA.py, JADE.py under outcome
\* o: every exception is caught and logged.  CASS and INCA save the archive
\* in the extraction directory and remove it after a complete extraction.
download_and_extract(a, o) ==
  /\ net' = net + 1
  /\ extracted' = extracted \cup SeqRange(Prefix(Members(a), o.k))
  /\ got' = got \cup SeqRange(Prefix(Members(a), o.k))
  /\ tarballs' = IF corpus \in Cleaning /\ o.kind = "corrupt"
                 THEN tarballs \cup {a} ELSE tarballs
  /\ log' = log \cup {IF o.kind = "ok" THEN "fetch_ok" ELSE "fetch_error"}
  /\ fetched' = IF o.kind = "ok" THEN fetched \cup {a} ELSE fetched
  /\ pc' = pc
  /\ exc' = exc

\* download_and_extract of CNIL.py: nothing is done when the tarball is
\* already on disk; every exception is re-raised, and tar_dila_data does not
\* catch it.
download_and_extract_CNIL(a, o) ==
  IF a \in tarballs
  THEN UNCHANGED <<net, extracted, got, tarballs, log, fetched, pc, exc>>
  ELSE /\ net' = net + 1
       /\ extracted' = extracted \cup SeqRange(Prefix(Members(a), o.k))
       /\ got' = got \cup SeqRange(Prefix(Members(a), o.k))
       /\ tarballs' = IF o.kind = "http" THEN tarballs ELSE tarballs \cup {a}
       /\ log' = log \cup {"downloading"}
                     \cup (IF o.kind = "http" THEN {} ELSE {"extracting"})
       /\ fetched' = IF o.kind = "ok" THEN fetched \cup {a} ELSE fetched
       /\ pc' = IF o.kind = "ok" THEN pc ELSE "Crashed"
       /\ exc' = CASE o.kind = "ok" -> exc
                   [] o.kind = "http" -> "RequestException"
                   [] o.kind = "corrupt" -> "TarError"

\* One iteration of the download loop.
Fetch ==
  /\ pc = "Fetching"
  /\ idx <= Len(filenames)
  /\ LET a == filenames[idx] IN
       \E o \in FetchOutcomes(a) :
         IF corpus = "CNIL"
         THEN IF IsFreemium(a)
              THEN UNCHANGED <<net, extracted, got, tarballs, log, fetched,
                               pc, exc>>
              ELSE download_and_extract_CNIL(a, o)
         ELSE download_and_extract(a, o)
  /\ idx' = idx + 1
  /\ UNCHANGED <<corpus, filenames, output, xml_files, pos, batch_data,
                 total_processed, results, truncs, writes, prev, tvars>>

\* The clearing of the output file left out.
truncate_skipped(out) == out

\* open(output_file, 'w').close()
truncate(out) == EmptyFile

\* After the download loop: discovery, and for the batching scripts the
\* clearing of the output file (CAPP: before the glob; CASS, INCA: after the
\* walk, and not at all when it found nothing: they log and return).
Discover ==
  /\ pc = "Fetching"
  /\ idx > Len(filenames)
  /\ \E order \in Orders(extracted) :
       /\ xml_files' = order
       /\ IF corpus \in Cleaning /\ order = <<>>
          THEN /\ pc' = "NoFiles"
               /\ log' = log \cup {"found_xml", "no_xml"}
               /\ UNCHANGED <<output, truncs>>
          ELSE /\ pc' = "Parsing"
               /\ log' = IF corpus \in Cleaning
                         THEN log \cup {"found_xml"} ELSE log
               /\ IF corpus \in Batching
                  THEN output' = truncate(output) /\ truncs' = truncs + 1
                  ELSE UNCHANGED <<output, truncs>>
  /\ UNCHANGED <<corpus, filenames, idx, extracted, tarballs, pos,
                 batch_data, total_processed, results, exc, net, writes,
                 fetched, got, prev, tvars>>

\* The record of one write attempt: the records handed to it, how many
\* lines reached the file, and whether it went through.
Attempt(items, o) == [items |-> items, k |-> o.k, ok |-> o.ok]

\* The flush test with > for >=.
BatchFull_Late(items) == Len(items) > batch_size

\* if len(batch_data) >= batch_size
BatchFull(items) == Len(items) >= batch_size

\* One iteration of the parse loop of CAPP.py, CASS.py, INCA.py: the record
\* is buffered and counted, and a full buffer is written and emptied whether
\* or not the write went through.
ParseStepBatching(f, o) ==
  LET data == Parsed(corpus, f)
      grown == Append(batch_data, f)
  IN IF DataTruthy(data)
     THEN /\ total_processed' = total_processed + 1
          /\ IF BatchFull(grown)
             THEN /\ output' = write_batch_to_jsonl(output, grown, o)
                  /\ writes' = Append(writes, Attempt(grown, o))
                  /\ batch_data' = <<>>
                  /\ log' = log \cup {"progress"}
                                \cup (IF o.ok THEN {} ELSE {"write_error"})
             ELSE /\ batch_data' = grown
                  /\ UNCHANGED <<output, writes, log>>
          /\ pc' = pc /\ exc' = exc
     ELSE /\ log' = log \cup {"parse_error"}
          /\ pc' = pc /\ exc' = exc
          /\ UNCHANGED <<batch_data, total_processed, output, writes>>

\* One iteration of the parse loop of JADE.py and CNIL.py.  JADE prints the
\* parse error and goes on; the exception parse_cnil_xml_file raises leaves
\* tar_dila_data.
ParseStepSimple(f) ==
  LET data == Parsed(corpus, f)
  IN /\ results' = IF DataTruthy(data)
                   THEN Append(results, f) ELSE results
     /\ log' = IF data.kind = "None" THEN log \cup {"parse_error"} ELSE log
     /\ pc' = IF data.kind \in {"dict", "None"} THEN pc ELSE "Crashed"
     /\ exc' = IF data.kind \in {"dict", "None"} THEN exc ELSE data.kind

ParseStep ==
  /\ pc = "Parsing"
  /\ pos <= Len(xml_files)
  /\ IF corpus \in Batching
     THEN /\ \E o \in WriteOutcomes(Len(batch_data) + 1) :
               ParseStepBatching(xml_files[pos], o)
          /\ UNCHANGED results
     ELSE /\ ParseStepSimple(xml_files[pos])
          /\ UNCHANGED <<batch_data, total_processed, output, writes>>
  /\ pos' = pos + 1
  /\ UNCHANGED <<corpus, filenames, idx, extracted, tarballs, xml_files,
                 net, truncs, fetched, got, prev, tvars>>

\* The sample read after the run: next(f) on the output file, n times, in a
\* try that logs the exception.
SampleFails(out, n) == ~out.exists \/ Len(out.lines) < n
Min(a, b) == IF a < b THEN a ELSE b

\* End of the parse loop in CAPP.py, CASS.py, INCA.py: the remaining records
\* are written, the totals are logged, a sample is read back.
FinishBatching(o) ==
  LET out == IF batch_data # <<>>
             THEN write_batch_to_jsonl(output, batch_data, o) ELSE output
      wanted == IF corpus = "CAPP" THEN 5 ELSE Min(5, total_processed)
      sampled == corpus = "CAPP" \/ total_processed > 0
  IN /\ output' = out
     /\ writes' = IF batch_data # <<>>
                  THEN Append(writes, Attempt(batch_data, o)) ELSE writes
     /\ log' = log \cup {"completed"}
                 \cup (IF batch_data # <<>> /\ ~o.ok
                       THEN {"write_error"} ELSE {})
                 \cup (IF sampled /\ SampleFails(out, wanted)
                       THEN {"sample_error"} ELSE {})
     /\ pc' = "Done"
     /\ UNCHANGED <<batch_data, results, truncs, exc>>

\* End of the parse loop in JADE.py: all results are written with mode 'w'
\* outside any try; then df_sample[['titre', ...]] raises KeyError on the
\* column-less frame of an empty result list, before the closing prints.
FinishJADE(o) ==
  /\ output' = write_all(output, results, o)
  /\ truncs' = IF o.opened THEN truncs + 1 ELSE truncs
  /\ writes' = Append(writes, Attempt(results, o))
  /\ pc' = IF o.ok /\ results # <<>> THEN "Done" ELSE "Crashed"
  /\ exc' = CASE ~o.ok -> "OSError"
              [] o.ok /\ results = <<>> -> "KeyError"
              [] OTHER -> exc
  /\ log' = IF o.ok /\ results # <<>> THEN log \cup {"completed"} ELSE log
  /\ UNCHANGED <<batch_data, results>>

\* End of the parse loop in CNIL.py: all results are written with mode 'w'
\* outside any try.
FinishCNIL(o) ==
  /\ output' = write_all(output, results, o)
  /\ truncs' = IF o.opened THEN truncs + 1 ELSE truncs
  /\ writes' = Append(writes, Attempt(results, o))
  /\ pc' = IF o.ok THEN "Done" ELSE "Crashed"
  /\ exc' = IF o.ok THEN exc ELSE "OSError"
  /\ log' = log \cup {"writing"}
  /\ UNCHANGED <<batch_data, results>>

Finish ==
  /\ pc = "Parsing"
  /\ pos > Len(xml_files)
  /\ CASE corpus \in Batching ->
            \E o \in WriteOutcomes(Len(batch_data)) : FinishBatching(o)
       [] corpus = "JADE" ->
            \E o \in WriteOutcomes(Len(results)) : FinishJADE(o)
       [] corpus = "CNIL" ->
            \E o \in WriteOutcomes(Len(results)) : FinishCNIL(o)
  /\ UNCHANGED <<corpus, filenames, idx, extracted, tarballs, xml_files, pos,
                 total_processed, net, fetched, got, prev, tvars>>

Next ==
  \/ StartRun
  \/ ReadList
  \/ ReadListFails
  \/ Fetch
  \/ Discover
  \/ ParseStep
  \/ Finish

Spec == Init /\ [][Next]_vars

(***************************************************************************)
(* clean_text taken alone: a text is given to the clean_text of one of the *)
(* four scripts that define it, and the result is given to it again.       *)
(***************************************************************************)
\* Longest text, in pieces.
MaxPieces == 3

\* The pieces the texts are made of: angle brackets, a tag, whitespace, a
\* letter, entity sequences and the parts that build one after a decoding.
Pieces ==
  { <<"<">>, <<">">>, <<"<", "b", ">">>, <<" ">>, <<"\n">>, <<"a">>,
    <<"&">>, <<"l", "t", ";">>,
    <<"&", "a", "m", "p", ";">>, <<"&", "g", "t", ";">>,
    <<"&", "q", "u", "o", "t", ";">>, <<"&", "a", "p", "o", "s", ";">> }

\* The texts clean_text is called with: None, and every concatenation of at
\* most MaxPieces pieces.
Texts ==
  {PyNone} \cup
    {PyStr(Concat(ps)) : ps \in UNION {[1..n -> Pieces] : n \in 0..MaxPieces}}

\* An exception raised by a call.
PyRaise(e) == [t |-> e, v |-> <<>>]

\* clean_text of JADE.py: its first statement uses re, which JADE.py never
\* imports, and it has no guard before it.
clean_text_JADE(x) == PyRaise("NameError")

\* The clean_text of script c.
clean_text_of(c, x) == IF c = "JADE" THEN clean_text_JADE(x) ELSE clean_text(x)

TextInit ==
  /\ corpus \in ListFile
  /\ pc = "clean_text"
  /\ text \in Texts
  /\ once = NotCalled /\ twice = NotCalled
  /\ filenames = <<>> /\ idx = 1 /\ extracted = {} /\ tarballs = {}
  /\ output = NoFile /\ xml_files = <<>> /\ pos = 1 /\ batch_data = <<>>
  /\ total_processed = 0 /\ results = <<>> /\ log = {} /\ exc = ""
  /\ net = 0 /\ truncs = 0 /\ writes = <<>> /\ fetched = {} /\ got = {}
  /\ prev = NoPrev

\* clean_text(text)
CallCleanText ==
  /\ pc = "clean_text" /\ once = NotCalled
  /\ once' = clean_text_of(corpus, text)
  /\ UNCHANGED <<corpus, pc, filenames, idx, extracted, tarballs, output,
                 xml_files, pos, batch_data, total_processed, results, log,
                 exc, net, truncs, writes, fetched, got, prev, text, twice>>

\* clean_text(clean_text(text)), when the first call returned.
CallCleanTextAgain ==
  /\ pc = "clean_text" /\ IsStr(once) /\ twice = NotCalled
  /\ twice' = clean_text_of(corpus, once)
  /\ UNCHANGED <<corpus, pc, filenames, idx, extracted, tarballs, output,
                 xml_files, pos, batch_data, total_processed, results, log,
                 exc, net, truncs, writes, fetched, got, prev, text, once>>

TextNext ==
  \/ CallCleanText
  \/ CallCleanTextAgain

SpecText == TextInit /\ [][TextNext]_vars

(***************************************************************************)
(* Properties.                                                             *)
(***************************************************************************)
\* The paths whose records the run holds in a buffer or has in its output
\* file.
Emitted ==
  SeqRange(batch_data) \cup SeqRange(results) \cup SeqRange(output.lines)

\* The exceptions by the place that raises them.
ListExceptions == {"FileNotFoundError", "URLError"}
FetchExceptions == {"RequestException", "TarError"}
ParseExceptions == {"ValueError", "RuntimeError"}

\* The run got its archive list.
ListObtained ==
  pc \notin {"Idle", "Listing", "Aborted"} /\ exc \notin ListExceptions

\* The documents of the run that parsed into a record, in discovery order.
IsParsed(f) == DataTruthy(Parsed(corpus, f))
Successes == SelectSeq(xml_files, IsParsed)
NParsed == Len(Successes)

\* The keys of corpus c that are fed from a block the document lacks.
AbsentBlockKeys(c, doc) ==
  DeclaredKeys(c) \cap
    ( (IF doc.commun.present THEN {} ELSE DOMAIN MapCommun)
      \cup (IF doc.juri.present THEN {} ELSE DOMAIN MapJuri)
      \cup (IF c \in Batching /\ ~doc.judi.present
            THEN DOMAIN MapJudi_CASS \cup {"publie_bulletin"} ELSE {})
      \cup (IF c = "JADE" /\ ~doc.admin.present
            THEN DOMAIN MapAdmin_JADE ELSE {})
      \cup (IF c = "CNIL" /\ ~doc.cnil.present
            THEN DOMAIN MapMeta_CNIL ELSE {})
      \cup (IF doc.contenu.present THEN {} ELSE {"contenu"})
      \cup (IF doc.sommaire.present THEN {}
            ELSE {"sommaire", "sommaire_principal", "sommaire_reference",
                  "sommaire_analyse"}) )

\* C1: every record a parser returned, buffered or written, has every key
\* declared for its corpus, and the keys of a block the document lacks hold
\* the empty string.
C1_EveryDeclaredKeyPresent ==
  \A f \in Emitted :
    /\ DeclaredKeys(corpus) \subseteq DOMAIN RecordOf(corpus, f)
    /\ \A k \in AbsentBlockKeys(corpus, DocOf(f)) :
         RecordOf(corpus, f)[k] = EmptyStr

\* C2: every value of every record buffered or written is a string, never
\* None.
C2_EveryValueIsString ==
  \A f \in Emitted :
    \A k \in DOMAIN RecordOf(corpus, f) : IsStr(RecordOf(corpus, f)[k])

\* C3: a document that fails to parse does not end the run: every run that
\* has ended was not ended by a parser's exception and has gone through all
\* the documents it discovered.
C3_ParseFailureConfined ==
  pc \in Ended => (exc \notin ParseExceptions /\ pos > Len(xml_files))

\* C4: an archive whose download or extraction fails is skipped: every run
\* that got its list and has ended was not ended by a fetch exception and
\* has attempted every archive of the list.
C4_FetchFailureSkipped ==
  (pc \in Ended /\ ListObtained) =>
    (exc \notin FetchExceptions /\ idx > Len(filenames))

\* C5: a run that got its archive list does not end otherwise than by
\* completing: no exception leaves main().
C5_RunReachesDone ==
  (pc \in Ended /\ ListObtained) => pc \in {"Done", "NoFiles"}

\* C6: in the scripts that read a list file, a run whose list cannot be read
\* logs the error and returns, having made no network request and
\* discovered or parsed no document.
C6_UnreadableListLoggedAndStops ==
  (corpus \in ListFile
     /\ (pc = "Aborted" \/ (pc = "Crashed" /\ exc \in ListExceptions))) =>
    /\ pc = "Aborted"
    /\ "list_error" \in log
    /\ net = 0
    /\ xml_files = <<>> /\ pos = 1

\* C7: a run that got its list and fetched no archive ends cleanly, having
\* discovered no document, with an empty or missing output file, and its log
\* says so (no documents, or a completed run) without a parse or write
\* error.
C7_NothingFetchedEndsClean ==
  (pc \in Ended /\ ListObtained /\ fetched = {}) =>
    /\ pc \in {"Done", "NoFiles"}
    /\ xml_files = <<>>
    /\ output.lines = <<>>
    /\ log \cap {"no_xml", "completed"} # {}
    /\ log \cap {"parse_error", "write_error"} = {}

CeilDiv(n, b) == (n + b - 1) \div b

\* Every write attempt of the run went through.
AllWritesOK == \A i \in 1..Len(writes) : writes[i].ok

\* The sizes of the write attempts for n records in batches of b: b each,
\* the last one n mod b when that is not zero.
BatchSizesFor(n, b) ==
  \A i \in 1..Len(writes) :
    Len(writes[i].items) =
      IF i < Len(writes) \/ n % b = 0 THEN b ELSE n % b

\* C8 as claimed: a completed run of a batching script has made
\* ceil(N / B) writes of B records, the last of N mod B when that is not
\* zero, and its output file has N lines.
C8_BatchesAndNLines ==
  (pc = "Done" /\ corpus \in Batching) =>
    /\ Len(writes) = CeilDiv(NParsed, batch_size)
    /\ BatchSizesFor(NParsed, batch_size)
    /\ Len(output.lines) = NParsed

\* C8, amended: a completed run of a batching script has made ceil(N / B)
\* write attempts of B records, the last of N mod B when that is not zero,
\* and when every attempt went through the output file holds the N records
\* in parse order; a completed run of JADE or CNIL has made one write, of
\* all N records.
C8_BatchesAndNLinesIfNoWriteFails ==
  pc = "Done" =>
    LET parsed == Successes
        n == Len(parsed)
    IN IF corpus \in Batching
       THEN /\ Len(writes) = CeilDiv(n, batch_size)
            /\ BatchSizesFor(n, batch_size)
            /\ AllWritesOK => output.lines = parsed
       ELSE /\ Len(writes) = 1
            /\ writes[1].items = parsed
            /\ output.lines = parsed

\* C8 witness: five parsed documents written as batches of 2, 2 and 1.
C8_Witness ==
  /\ pc = "Done" /\ corpus \in Batching /\ AllWritesOK
  /\ NParsed = 5 /\ Len(writes) = 3
  /\ Len(writes[1].items) = 2 /\ Len(writes[3].items) = 1
  /\ Len(output.lines) = 5

\* The lines the write attempts of the run put into the file, in order.
RECURSIVE WrittenBy(_)
WrittenBy(ws) ==
  IF ws = <<>> THEN <<>>
  ELSE Prefix(Head(ws).items, Head(ws).k) \o WrittenBy(Tail(ws))

\* C9 as claimed: every run that ends with its list read has truncated the
\* output file exactly once.
C9_TruncatedExactlyOnce ==
  (pc \in {"Done", "NoFiles"}) => truncs = 1

\* C9, amended: a run truncates the output file at most once, exactly once
\* when it completes or has put a line into the file, and from the
\* truncation on the file holds exactly the lines the run's writes put
\* there, in order: no later write removes or overwrites an earlier one.
C9_TruncateOnceThenAppend ==
  /\ truncs <= 1
  /\ (pc = "Done" \/ WrittenBy(writes) # <<>>) => truncs = 1
  /\ (corpus \in Batching /\ pc = "Parsing") => truncs = 1
  /\ truncs = 1 => output.lines = WrittenBy(writes)

\* C9 witness: in the parse loop, a second full batch has been appended
\* behind the first.
C9_Witness ==
  /\ pc = "Parsing" /\ truncs = 1 /\ Len(writes) = 2 /\ AllWritesOK
  /\ output.lines = writes[1].items \o writes[2].items
  /\ Len(output.lines) = 2 * batch_size

\* C10: a failed write of a batch is logged, raises nothing out of main(),
\* and its batch is not handed to a later write.
C10_WriteFailureContained ==
  (\E i \in 1..Len(writes) : ~writes[i].ok /\ writes[i].items # <<>>) =>
    /\ "write_error" \in log
    /\ exc # "OSError"
    /\ \A i, j \in 1..Len(writes) :
         i < j => SeqRange(writes[i].items) \cap SeqRange(writes[j].items) = {}

\* The counts a run reports in its log: the batching scripts log
\* total_processed at the end (CASS and INCA also the number of files found,
\* after the walk), JADE prints len(results), CNIL reports no count.
end_of_run_summary ==
  CASE corpus = "CAPP" -> [parsed |-> total_processed]
    [] corpus \in Cleaning ->
         [discovered |-> Len(xml_files), parsed |-> total_processed]
    [] corpus = "JADE" -> [parsed |-> Len(results)]
    [] corpus = "CNIL" -> [k \in {} |-> 0]

\* The discovered documents that are not well-formed XML.
IsMalformed(f) == ~DocOf(f).wf
NMalformed == Len(SelectSeq(xml_files, IsMalformed))

\* C11: a completed run reports the documents discovered, parsed and failed
\* by kind; every malformed document counts once as discovered and once as a
\* malformed failure, and discovered = parsed + the failures of all kinds.
C11_CountersAddUp ==
  (pc = "Done" /\ NMalformed > 0) =>
    LET s == end_of_run_summary IN
      /\ {"discovered", "parsed", "failed_malformed", "failed_other"}
           \subseteq DOMAIN s
      /\ s.discovered = Len(xml_files)
      /\ s.parsed = NParsed
      /\ s.failed_malformed = NMalformed
      /\ s.discovered = s.parsed + s.failed_malformed + s.failed_other

\* This run completed after a run that completed with every write through,
\* and discovered the same documents in the same order.
SecondRunOverSameDocuments ==
  pc = "Done" /\ prev.done /\ prev.xml_files = xml_files

\* C12 as claimed: the second of two completed runs over the same documents
\* in the same order leaves the output file the first one left.
C12_SecondRunSameOutput ==
  SecondRunOverSameDocuments => output = prev.output

\* C12, amended: it does when no write of the second run failed either.
C12_SecondRunSameOutputIfNoWriteFails ==
  (SecondRunOverSameDocuments /\ AllWritesOK) => output = prev.output

\* C12 witness: CAPP, whose extraction directory and output file outlive the
\* run, has written the same three lines a second time.
C12_Witness ==
  /\ SecondRunOverSameDocuments /\ AllWritesOK
  /\ corpus = "CAPP" /\ Len(output.lines) = 3
  /\ output = prev.output

\* How many lines of the output file were written for the document at f.
LinesOf(f) == LET Same(g) == g = f IN Len(SelectSeq(output.lines, Same))

\* The documents the parse loop has parsed into a record so far.
ParsedSoFar == SelectSeq(Prefix(xml_files, pos - 1), IsParsed)

\* C13: when a run that discovered documents has ended and none of its
\* writes failed, the output file has one line for each discovered document
\* that was parsed into a record and no other line.
C13_OneLinePerParsedDocument ==
  (pc \in Ended /\ xml_files # <<>> /\ AllWritesOK) =>
    \A f \in Files :
      LinesOf(f) = IF f \in SeqRange(ParsedSoFar) THEN 1 ELSE 0

\* The documents the parse loop has gone through.
Visited == SeqRange(Prefix(xml_files, pos - 1))

\* C14: every well-formed document with a CONTENU that a parser was given
\* parsed into a record, whose contenu is the normalized concatenation of
\* all text nodes under CONTENU, nested ones included.
C14_ContenuIsAllNormalizedText ==
  \A f \in Visited :
    (DocOf(f).wf /\ DocOf(f).contenu.present) =>
      /\ Parsed(corpus, f).kind = "dict"
      /\ "contenu" \in DOMAIN RecordOf(corpus, f)
      /\ RecordOf(corpus, f)["contenu"]
           = clean_text(PyStr(itertext(DocOf(f).contenu)))

\* The five entity sequences and the characters they stand for.
Entities ==
  { << <<"&", "a", "m", "p", ";">>, <<"&">> >>,
    << <<"&", "l", "t", ";">>, <<"<">> >>,
    << <<"&", "g", "t", ";">>, <<">">> >>,
    << <<"&", "q", "u", "o", "t", ";">>, <<"\"">> >>,
    << <<"&", "a", "p", "o", "s", ";">>, <<"'">> >> }

\* Every occurrence of an entity sequence decoded exactly once, in one pass
\* from the left: what a decoding produces is not decoded again.
RECURSIVE DecodeOnceFrom(_, _)
DecodeOnceFrom(s, i) ==
  IF i > Len(s) THEN <<>>
  ELSE IF \E e \in Entities : StartsAt(s, i, e[1])
       THEN LET e == CHOOSE e \in Entities : StartsAt(s, i, e[1])
            IN e[2] \o DecodeOnceFrom(s, i + Len(e[1]))
       ELSE <<s[i]>> \o DecodeOnceFrom(s, i + 1)

\* The reference normalization: "" for falsy text; otherwise tags to spaces,
\* whitespace runs to one space, entities decoded once, trimmed.
normalize_reference(x) ==
  IF ~Truthy(x) THEN EmptyStr
  ELSE PyStr(Strip(DecodeOnceFrom(CollapseSpaces(StripTags(x.v)), 1)))

\* No two whitespace characters in a row.
NoWhitespaceRun(s) ==
  \A i \in 1..(Len(s) - 1) : ~(IsSpace(s[i]) /\ IsSpace(s[i + 1]))

\* C15: clean_text returns the reference normalization of every text: "" for
\* an empty or absent one, and a str without whitespace runs and without
\* leading or trailing whitespace.
C15_CleanTextIsReference ==
  once # NotCalled =>
    /\ once = normalize_reference(text)
    /\ NoWhitespaceRun(once.v)
    /\ Strip(once.v) = once.v

\* None of the five entity sequences occurs in s.
EntityFree(s) ==
  \A i \in 1..Len(s) : \A e \in Entities : ~StartsAt(s, i, e[1])

\* C16: on a text without entity sequences, clean_text applied to its own
\* result returns that result.
C16_CleanTextIdempotent ==
  (twice # NotCalled /\ EntityFree(text.v)) => twice = once

\* C16 witness: nested angle brackets, cleaned twice.
C16_Witness ==
  /\ text = PyStr(<<"<", "<", "b", ">", ">">>)
  /\ once = PyStr(<<">">>)
  /\ twice = once

\* C17: in CASS, a record parsed from a document whose SOMMAIRE holds a
\* PRINCIPAL and a REFERENCE section has the keys sommaire_principal and
\* sommaire_reference, each the normalized full text of its own section.
C17_SommaireSectionsKeptApart ==
  corpus = "CASS" =>
    \A f \in Visited :
      LET subs == DocOf(f).sommaire.subs
          principal == FindSub(subs, "SCT", "PRINCIPAL")
          reference == FindSub(subs, "SCT", "REFERENCE")
      IN (DocOf(f).wf /\ DocOf(f).sommaire.present
            /\ principal.present /\ reference.present) =>
           /\ Parsed(corpus, f).kind = "dict"
           /\ {"sommaire_principal", "sommaire_reference"}
                \subseteq DOMAIN RecordOf(corpus, f)
           /\ RecordOf(corpus, f)["sommaire_principal"]
                = clean_text(PyStr(itertext(principal)))
           /\ RecordOf(corpus, f)["sommaire_reference"]
                = clean_text(PyStr(itertext(reference)))

\* The document with its specialised blocks put inside a META_SPEC.
Nested(doc) == [doc EXCEPT !.spec = TRUE]

\* C18: in INCA, a document whose META_JURI and META_JURI_JUDI stand at top
\* level, without a META_SPEC around them, parses into the record it gives
\* with the blocks nested in a META_SPEC.
C18_TopLevelBlocksExtracted ==
  corpus = "INCA" =>
    \A f \in Visited :
      (DocOf(f).wf /\ ~DocOf(f).spec
         /\ (DocOf(f).juri.present \/ DocOf(f).judi.present)) =>
        Parsed(corpus, f) = parse_xml_file_INCA(Nested(DocOf(f)))

\* The fields each parser reads from element text: the block of the
\* document and the key -> tag pairs read from it.
TextFields(c) ==
  CASE c = "CAPP" ->
         { <<"commun", MapCommun>>, <<"juri", MapJuri>>,
           <<"judi", MapJudi_CAPP @@ [numero_affaire |-> "NUMERO_AFFAIRE"]>> }
    [] c \in Cleaning ->
         { <<"commun", MapCommun>>, <<"juri", MapJuri>>,
           <<"judi", MapJudi_CASS>> }
    [] c = "JADE" ->
         { <<"commun", MapCommun>>, <<"juri", MapJuri_JADE>>,
           <<"admin", MapAdmin_JADE>> }
    [] c = "CNIL" ->
         { <<"commun", MapCommun_CNIL>>, <<"cnil", MapMeta_CNIL>> }

\* Whether the parser of c reads block b of the document (INCA reads the
\* specialised blocks inside META_SPEC only).
BlockRead(c, doc, b) ==
  doc[b].present /\ (c = "INCA" /\ b \in {"juri", "judi"} => doc.spec)

\* C19: in every record, each field read from element text holds the
\* normalized text of its element, contenu the normalized text of CONTENU,
\* and publie_bulletin the publie attribute as it is.
C19_ElementTextAlwaysNormalized ==
  \A f \in Emitted :
    LET doc == DocOf(f)
        rec == RecordOf(corpus, f)
        publi_bull == doc.judi.kids["PUBLI_BULL"]
    IN /\ \A bm \in TextFields(corpus) :
            BlockRead(corpus, doc, bm[1]) =>
              \A k \in DOMAIN bm[2] :
                /\ k \in DOMAIN rec
                /\ rec[k] = clean_text(doc[bm[1]].kids[bm[2][k]].text)
       /\ (doc.contenu.present /\ "contenu" \in DOMAIN rec) =>
            rec["contenu"] = clean_text(PyStr(itertext(doc.contenu)))
       /\ (corpus \in Cleaning /\ BlockRead(corpus, doc, "judi")
             /\ publi_bull.present /\ IsStr(publi_bull.publie)) =>
            rec["publie_bulletin"] = publi_bull.publie

\* C20: in the batching scripts, the total of processed documents a
\* completed run logs is the number of lines of its output file, whether or
\* not a write failed.
C20_ReportedTotalIsLineCount ==
  (corpus \in Batching /\ pc = "Done") =>
    /\ "completed" \in log
    /\ end_of_run_summary.parsed = Len(output.lines)

\* The run ended at the reading of its archive list.
EndedAtListing ==
  pc = "Aborted" \/ (pc = "Crashed" /\ exc \in ListExceptions)

\* C21: a run that ends at the reading of its archive list, after a run that
\* completed, leaves the output file that run left and the documents it had
\* discovered in place.
C21_AbortLeavesPreviousData ==
  (EndedAtListing /\ prev.done) =>
    /\ output = prev.output
    /\ SeqRange(prev.xml_files) \subseteq extracted

\* C22: a completed run has discovered, and holds in its output file, only
\* documents that this run extracted from the archives it fetched.
C22_OnlyDocumentsOfThisRun ==
  pc = "Done" =>
    /\ SeqRange(xml_files) \subseteq got
    /\ SeqRange(output.lines) \subseteq got

=============================================================================
